---- MODULE Spec2Model ----
(***************************************************************************)
(* Model of src/main.py: the OAuth callback relay of hrvibe.  The token    *)
(* map `tokens` and the audit deque `pending` live in memory and are       *)
(* written through to tokens.json / pending.json by _atomic_write_json.    *)
(*                                                                         *)
(* Scheduling.  hh_callback and token_by_state are `async def`: they run   *)
(* on the event loop and give up control only at the `await` of the        *)
(* provider call, so each is one action up to the await and one action     *)
(* for the continuation.  admin_delete_state is a plain `def`: FastAPI     *)
(* runs it on a worker thread, so its steps (pop, dump, replace) are       *)
(* separate actions that interleave with the event loop's actions.         *)
(***************************************************************************)
EXTENDS Integers, Sequences, FiniteSets, TLC

\* ---------------------------------------------------------------- bounds
MaxTime == 1
MaxIssued == 3
MaxInFlight == 2
MaxCrashes == 1
\* _atomic_write_json step by step: threads writing, snapshots written,
\* chunks json.dump writes per document, deaths of the process
MaxWriters == 2
MaxVersions == 2
DocLen == 2
MaxWriteCrashes == 1
\* capacity of the audit deque, scaled down from the program's 200
BUFFER_MAX == 2

\* ------------------------------------------------------- program constants
REFRESH_MARGIN == 60
DEFAULT_EXPIRES_IN == 3600
LOAD_GRACE == 300

\* Python None where a string is expected (query parameter, header, env var)
None == "None"
\* Python None where a token is expected (tokens are numbered as issued)
NoToken == 0
\* Python None where expires_in is expected
NoExpiresIn == -1

\* the keys of the token map; authorizations made in a run are for CallbackStates
States == {"s1", "s2"}
CallbackStates == {"s1"}
Codes == {"c1"}

\* ------------------------------------------------------------ JSON values
\* expires_at as found in a record: an integer, a numeric string ("61"),
\* something int() rejects ("soon", null), or no such key.
ExpInt(n) == [k |-> "int", v |-> n]
ExpNumStr(n) == [k |-> "numstr", v |-> n]
ExpBad == [k |-> "bad", v |-> 0]
ExpMissing == [k |-> "missing", v |-> 0]

Rec(at, rt, tt, ei, exp) ==
    [k |-> "dict", access_token |-> at, refresh_token |-> rt,
     token_type |-> tt, expires_in |-> ei, expires_at |-> exp]

\* tokens.get(state) is None / the key is not in the JSON object
NoRecord ==
    [k |-> "absent", access_token |-> NoToken, refresh_token |-> NoToken,
     token_type |-> None, expires_in |-> NoExpiresIn, expires_at |-> ExpMissing]

\* a JSON value that is not an object (a number, a string, a list)
NotADict == [NoRecord EXCEPT !.k = "other"]

NoMap == [s \in States |-> NoRecord]

\* A file: missing, not parseable, or a JSON document.  A tokens document is
\* an object (top = "dict", val = state -> entry) or something else; a
\* pending document is an array (top = "list", val = sequence) or something else.
FileAbsent(empty) == [k |-> "absent", top |-> "none", val |-> empty]
FileCorrupt(empty) == [k |-> "corrupt", top |-> "none", val |-> empty]
FileJson(top, val) == [k |-> "json", top |-> top, val |-> val]

Min(a, b) == IF a < b THEN a ELSE b

\* Tokens as the provider issues them: the n-th token issued, tagged with the
\* authorization (the code exchange) it descends from.  Grant 0 is an
\* authorization made before this run (tokens found in tokens.json).
Tok(g, n) == 10 * g + n
GrantOf(t) == t \div 10

VARIABLES
    now,          \* int(time.time())
    up,           \* the process has run its startup hook and serves requests
    crashes,      \* how many times the process was restarted
    env,          \* ADMIN_TOKEN, BOT_SHARED_SECRET as read from the environment
    tokens,       \* the global dict `tokens`: state -> record (NoRecord: no key)
    pending,      \* the global deque `pending`
    tokensFile,   \* PERSIST_DIR/tokens.json
    pendingFile,  \* PERSIST_DIR/pending.json
    saved,        \* which of the two files this service has written so far
    inflight,     \* coroutines suspended at `await client.post(...)`
    del,          \* the worker thread running admin_delete_state
    issued,       \* number of tokens the provider has issued so far
    ev,           \* the last step: the request it served and its response
    \* _atomic_write_json step by step, on one target path of PERSIST_DIR
    fs,           \* the files of PERSIST_DIR: name -> [exists, data]
    wr,           \* the threads inside _atomic_write_json: pc, tmp_path, data
    orphans,      \* contents of temporary files left behind by a dead process
    versions,     \* number of snapshots handed to _atomic_write_json so far
    renamed,      \* the snapshot of the last os.replace onto the target path
    wcrashes      \* number of times the writing process died

\* the service as a whole (requests, memory, the two files as whole documents)
svars == <<now, up, crashes, env, tokens, pending, tokensFile, pendingFile,
           saved, inflight, del, issued, ev>>
\* one file being written step by step
wvars == <<fs, wr, orphans, versions, renamed, wcrashes>>
vars == <<svars, wvars>>

\* ------------------------------------------------------------ persistence
\* json.dump of the dict `tokens` / of list(pending)
DumpTokens(m) == FileJson("dict", m)
DumpPending(dq) == FileJson("list", dq)

\* _load_json_or_default: the default when the file is missing or corrupt
LoadJsonOrDefault(file, default) == IF file.k = "json" THEN file ELSE default

\* int(value["expires_at"]) in load_all, with its except branch
SanitizeExpiresAt(exp, t) ==
    IF exp.k \in {"int", "numstr"} THEN ExpInt(exp.v) ELSE ExpInt(t + LOAD_GRACE)

\* one iteration of load_all's loop over loaded_tokens.items()
SanitizeEntry(v, t) ==
    IF v.k # "dict" THEN NoRecord
    ELSE IF v.expires_at.k = "missing" THEN v
    ELSE [v EXCEPT !.expires_at = SanitizeExpiresAt(v.expires_at, t)]

\* load_all, tokens part: what `tokens` holds after tokens.update(loaded_tokens)
LoadTokens(file, t) ==
    LET loaded == LoadJsonOrDefault(file, FileJson("dict", NoMap))
    IN  IF loaded.top = "dict"
        THEN [s \in States |-> SanitizeEntry(loaded.val[s], t)]
        ELSE NoMap

\* load_all, pending part: dq.extend(loaded_pending[:BUFFER_MAX])
LoadPending(file) ==
    LET loaded == LoadJsonOrDefault(file, FileJson("list", <<>>))
    IN  IF loaded.top = "list"
        THEN SubSeq(loaded.val, 1, Min(Len(loaded.val), BUFFER_MAX))
        ELSE <<>>

\* a slip: a deque without maxlen
DequeAppendUnbounded(dq, x) == Append(dq, x)

\* deque(maxlen=BUFFER_MAX).append
DequeAppend(dq, x) ==
    IF Len(dq) >= BUFFER_MAX THEN Append(Tail(dq), x) ELSE Append(dq, x)

\* ------------------------------------------------------ provider responses
\* The shapes of a successful token response: whether the body carries
\* refresh_token and token_type, and its expires_in (NoExpiresIn: omitted).
ProviderResponses ==
    { [rotate |-> TRUE,  token_type |-> None,     expires_in |-> 61],
      [rotate |-> FALSE, token_type |-> "bearer", expires_in |-> 59] }

\* raise_for_status() on a non-2xx answer / a transport failure: both httpx.HTTPError
ProviderFailures == {"status_error", "network_error"}

\* r.json(): the body of shape `shape` carrying the n-th token, of grant g
\* (refresh_token = NoToken: the key is omitted)
ResponseBody(shape, g, n) ==
    [access_token |-> Tok(g, n),
     refresh_token |-> IF shape.rotate THEN Tok(g, n) ELSE NoToken,
     token_type |-> shape.token_type,
     expires_in |-> shape.expires_in]

\* exchange_code_for_tokens / refresh_with_refresh_token after the POST:
\* j["expires_at"] = now + int(j.get("expires_in", 3600)); return j
WithExpiresAt(j, t) ==
    [access_token |-> j.access_token, refresh_token |-> j.refresh_token,
     token_type |-> j.token_type, expires_in |-> j.expires_in,
     expires_at |-> t + (IF j.expires_in = NoExpiresIn THEN DEFAULT_EXPIRES_IN
                         ELSE j.expires_in)]

\* token.get("token_type", "Bearer")
TokenType(j) == IF j.token_type = None THEN "Bearer" ELSE j.token_type

\* hh_callback: the record built from the exchange answer
CallbackRecord(token) ==
    Rec(token.access_token, token.refresh_token, TokenType(token),
        token.expires_in, ExpInt(token.expires_at))

\* a slip: refreshed.get("refresh_token") without the default
RefreshedRefreshTokenNoDefault(refreshed, refresh_token) == refreshed.refresh_token

\* refreshed.get("refresh_token", refresh_token)
RefreshedRefreshToken(refreshed, refresh_token) ==
    IF refreshed.refresh_token = NoToken THEN refresh_token ELSE refreshed.refresh_token

\* get_valid_access_token_for_state: the record built from the refresh answer
RefreshRecord(refreshed, refresh_token) ==
    Rec(refreshed.access_token, RefreshedRefreshToken(refreshed, refresh_token),
        TokenType(refreshed), refreshed.expires_in, ExpInt(refreshed.expires_at))

\* int(item.get("expires_at", 0))
ItemExpiresAt(item) == IF item.expires_at.k = "missing" THEN 0 ELSE item.expires_at.v

\* a slip: `>` for `>=`
IsStaleStrict(item, t) == t > ItemExpiresAt(item) - REFRESH_MARGIN

\* now >= expires_at - 60
IsStale(item, t) == t >= ItemExpiresAt(item) - REFRESH_MARGIN

\* ----------------------------------------------------------------- auth
\* require_admin: raises 401 unless the header equals ADMIN_TOKEN
AdminOk(admin_token) == admin_token = env.ADMIN_TOKEN

\* a slip: the secret is not compared
BotOkAnyBearer(auth) == auth.scheme = "Bearer"

\* require_bot: the Authorization header as <scheme> <secret>; no header, or
\* one without the "Bearer " prefix, has scheme None
BotOk(auth) == auth.scheme = "Bearer" /\ auth.secret = env.BOT_SHARED_SECRET

\* request inputs
AdminHeaders == {None, "adm", "wrong"}
AuthHeaders ==
    { [scheme |-> None, secret |-> None],
      [scheme |-> "Bearer", secret |-> "bot"],
      [scheme |-> "Bearer", secret |-> "wrong"] }
QueryValues(S) == S \cup {None}

\* ------------------------------------------------------------- handlers
DelIdle == [pc |-> "idle", state |-> None, existed |-> FALSE, snap |-> NoMap]

\* `inflight` lists the suspended coroutines in the order they were suspended
Slots == 1..MaxInFlight
Suspend(h) == Append(inflight, h)
Resume(i) == SubSeq(inflight, 1, i - 1) \o SubSeq(inflight, i + 1, Len(inflight))
Suspended(i, op) == i <= Len(inflight) /\ inflight[i].op = op

\* no provider answer was consumed by the step
NoResponse ==
    [access_token |-> NoToken, refresh_token |-> NoToken, token_type |-> None,
     expires_in |-> NoExpiresIn, expires_at |-> 0]

\* What a step did, as its caller and the provider see it: the action, the
\* state it was asked about, the HTTP status answered (0: no answer yet, the
\* handler is suspended), whether the handler raised, the record
\* get_valid_access_token_for_state returned, the "deleted" flag answered, the
\* provider answer consumed and the refresh token that had been submitted;
\* and, for a request, what it carried (req: the query parameters of a
\* callback, the Authorization header, the admin token header) and the JSON
\* body an admin listing answered.
Ev(op, state, status) ==
    [op |-> op, state |-> state, status |-> status, raised |-> FALSE,
     ret |-> NoRecord, deleted |-> FALSE, resp |-> NoResponse, sent |-> NoToken,
     req |-> None, body |-> <<>>]

Req(e, req) == [e EXCEPT !.req = req]

Raised(e) == [e EXCEPT !.raised = TRUE]

\* a slip: the audit buffer is kept in memory only
SavePendingSkipped(dq) == UNCHANGED <<pendingFile, saved>>

\* save_tokens() / save_pending() on the event loop: dump and replace in one step
SaveTokens(m) ==
    /\ tokensFile' = DumpTokens(m)
    /\ saved' = [saved EXCEPT !.tokens = TRUE]
SavePending(dq) ==
    /\ pendingFile' = DumpPending(dq)
    /\ saved' = [saved EXCEPT !.pending = TRUE]

\* what token_by_state answers once get_valid_access_token_for_state has
\* returned `item`: 404 for None; item["expires_at"] raises KeyError when the
\* record has no such key
Reply(e, item) ==
    IF item = NoRecord THEN Raised([e EXCEPT !.status = 404])
    ELSE IF item.expires_at.k = "missing"
    THEN Raised([e EXCEPT !.status = 500, !.ret = item])
    ELSE [e EXCEPT !.status = 200, !.ret = item]

\* @app.on_event("startup"): load_all()
Startup ==
    /\ ~up
    /\ up' = TRUE
    /\ tokens' = LoadTokens(tokensFile, now)
    /\ pending' = LoadPending(pendingFile)
    /\ ev' = Ev("Startup", None, 0)
    /\ UNCHANGED <<now, crashes, env, tokensFile, pendingFile, saved, inflight,
                   del, issued>>
    /\ UNCHANGED wvars

\* the process dies and is started again: memory is lost, the files stay
Crash ==
    /\ up
    /\ crashes < MaxCrashes
    /\ up' = FALSE
    /\ crashes' = crashes + 1
    /\ tokens' = NoMap
    /\ pending' = <<>>
    /\ inflight' = <<>>
    /\ del' = DelIdle
    /\ ev' = Ev("Crash", None, 0)
    /\ UNCHANGED <<now, env, tokensFile, pendingFile, saved, issued>>
    /\ UNCHANGED wvars

\* time.time() advances
Tick ==
    /\ now < MaxTime
    /\ now' = now + 1
    /\ ev' = Ev("Tick", None, 0)
    /\ UNCHANGED <<up, crashes, env, tokens, pending, tokensFile, pendingFile,
                   saved, inflight, del, issued>>
    /\ UNCHANGED wvars

\* GET /
Health ==
    /\ up
    /\ ev' = Ev("Health", None, 200)
    /\ UNCHANGED <<now, up, crashes, env, tokens, pending, tokensFile,
                   pendingFile, saved, inflight, del, issued>>
    /\ UNCHANGED wvars

\* the audit entry hh_callback builds
AuditEntry(state, code, t) == [state |-> state, code |-> code, ts |-> t, ip |-> "ip"]

\* hh_callback up to `await exchange_code_for_tokens(code)`
HhCallback(code, state) ==
    /\ up
    /\ IF code = None \/ state = None
       THEN /\ ev' = Req(Raised(Ev("HhCallback", state, 400)),
                          [code |-> code, state |-> state])
            /\ UNCHANGED <<pending, pendingFile, saved, inflight>>
       ELSE /\ Len(inflight) < MaxInFlight
            /\ pending' = DequeAppend(pending, AuditEntry(state, code, now))
            /\ SavePending(pending')
            /\ inflight' = Suspend([op |-> "hh_callback", state |-> state,
                                    code |-> code, refresh_token |-> NoToken])
            /\ ev' = Req(Ev("HhCallback", state, 0), [code |-> code, state |-> state])
    /\ UNCHANGED <<now, up, crashes, env, tokens, tokensFile, del, issued>>
    /\ UNCHANGED wvars

\* hh_callback after the await: the exchange answered 2xx
ExchangeOk(i, shape) ==
    /\ up
    /\ Suspended(i, "hh_callback")
    /\ issued < MaxIssued
    /\ LET state == inflight[i].state
           token == WithExpiresAt(ResponseBody(shape, issued + 1, issued + 1), now)
       IN  /\ tokens' = [tokens EXCEPT ![state] = CallbackRecord(token)]
           /\ SaveTokens(tokens')
           /\ ev' = [Ev("ExchangeOk", state, 200) EXCEPT !.resp = token]
    /\ issued' = issued + 1
    /\ inflight' = Resume(i)
    /\ UNCHANGED <<now, up, crashes, env, pending, pendingFile, del>>
    /\ UNCHANGED wvars

\* hh_callback after the await: the exchange raised httpx.HTTPError, which
\* the handler catches and answers with status 500
ExchangeFail(i, failure) ==
    /\ up
    /\ Suspended(i, "hh_callback")
    /\ failure \in ProviderFailures
    /\ ev' = Ev("ExchangeFail", inflight[i].state, 500)
    /\ inflight' = Resume(i)
    /\ UNCHANGED <<now, up, crashes, env, tokens, pending, tokensFile,
                   pendingFile, saved, del, issued>>
    /\ UNCHANGED wvars

\* get_valid_access_token_for_state decides to refresh `item`
NeedsRefresh(item, t) ==
    /\ item # NoRecord
    /\ IsStale(item, t)
    /\ item.refresh_token # NoToken

\* token_by_state up to `await refresh_with_refresh_token(refresh_token)`,
\* or to its end when get_valid_access_token_for_state does not refresh
TokenByState(auth, state) ==
    /\ up
    /\ IF ~BotOk(auth)
       THEN /\ ev' = Req(Raised(Ev("TokenByState", state, 401)), auth)
            /\ UNCHANGED inflight
       ELSE LET item == tokens[state]
            IN  IF NeedsRefresh(item, now)
                THEN /\ Len(inflight) < MaxInFlight
                     /\ inflight' = Suspend([op |-> "get_valid", state |-> state,
                                             code |-> None,
                                             refresh_token |-> item.refresh_token])
                     /\ ev' = Req(Ev("TokenByState", state, 0), auth)
                ELSE /\ ev' = Reply(Req(Ev("TokenByState", state, 0), auth), item)
                     /\ UNCHANGED inflight
    /\ UNCHANGED <<now, up, crashes, env, tokens, pending, tokensFile,
                   pendingFile, saved, del, issued>>
    /\ UNCHANGED wvars

\* get_valid_access_token_for_state after the await: the refresh answered 2xx
RefreshOk(i, shape) ==
    /\ up
    /\ Suspended(i, "get_valid")
    /\ issued < MaxIssued
    /\ LET state == inflight[i].state
           refresh_token == inflight[i].refresh_token
           refreshed == WithExpiresAt(
                            ResponseBody(shape, GrantOf(refresh_token), issued + 1), now)
       IN  /\ tokens' = [tokens EXCEPT ![state] =
                            RefreshRecord(refreshed, refresh_token)]
           /\ SaveTokens(tokens')
           /\ ev' = Reply([Ev("RefreshOk", state, 0) EXCEPT
                              !.resp = refreshed, !.sent = refresh_token],
                          tokens'[state])
    /\ issued' = issued + 1
    /\ inflight' = Resume(i)
    /\ UNCHANGED <<now, up, crashes, env, pending, pendingFile, del>>
    /\ UNCHANGED wvars

\* a slip: the failure is swallowed and the stale record returned
RefreshFailFallback(i, failure) ==
    /\ up
    /\ Suspended(i, "get_valid")
    /\ failure \in ProviderFailures
    /\ ev' = Reply([Ev("RefreshFail", inflight[i].state, 0) EXCEPT
                       !.sent = inflight[i].refresh_token],
                   tokens[inflight[i].state])
    /\ inflight' = Resume(i)
    /\ UNCHANGED <<now, up, crashes, env, tokens, pending, tokensFile,
                   pendingFile, saved, del, issued>>
    /\ UNCHANGED wvars

\* get_valid_access_token_for_state after the await: the refresh raised
\* httpx.HTTPError, which nothing catches
RefreshFail(i, failure) ==
    /\ up
    /\ Suspended(i, "get_valid")
    /\ failure \in ProviderFailures
    /\ ev' = Raised([Ev("RefreshFail", inflight[i].state, 500) EXCEPT
                        !.sent = inflight[i].refresh_token])
    /\ inflight' = Resume(i)
    /\ UNCHANGED <<now, up, crashes, env, tokens, pending, tokensFile,
                   pendingFile, saved, del, issued>>
    /\ UNCHANGED wvars

\* a slip: the delete also drops the audit entries of the state
DeletePopWithAudit(admin_token, state) ==
    /\ up
    /\ del.pc = "idle"
    /\ IF ~AdminOk(admin_token)
       THEN /\ ev' = Req(Raised(Ev("DeletePop", state, 401)), admin_token)
            /\ UNCHANGED <<tokens, del, pending>>
       ELSE /\ tokens' = [tokens EXCEPT ![state] = NoRecord]
            /\ pending' = SelectSeq(pending, LAMBDA e : e.state # state)
            /\ del' = [pc |-> "popped", state |-> state,
                       existed |-> tokens[state] # NoRecord, snap |-> NoMap]
            /\ ev' = Req(Ev("DeletePop", state, 0), admin_token)
    /\ UNCHANGED <<now, up, crashes, env, tokensFile, pendingFile,
                   saved, inflight, issued>>
    /\ UNCHANGED wvars

\* admin_delete_state on its worker thread: require_admin, tokens.pop
DeletePop(admin_token, state) ==
    /\ up
    /\ del.pc = "idle"
    /\ IF ~AdminOk(admin_token)
       THEN /\ ev' = Req(Raised(Ev("DeletePop", state, 401)), admin_token)
            /\ UNCHANGED <<tokens, del>>
       ELSE /\ tokens' = [tokens EXCEPT ![state] = NoRecord]
            /\ del' = [pc |-> "popped", state |-> state,
                       existed |-> tokens[state] # NoRecord, snap |-> NoMap]
            /\ ev' = Req(Ev("DeletePop", state, 0), admin_token)
    /\ UNCHANGED <<now, up, crashes, env, pending, tokensFile, pendingFile,
                   saved, inflight, issued>>
    /\ UNCHANGED wvars

\* admin_delete_state: save_tokens() as far as json.dump into the temporary file
DeleteDump ==
    /\ up
    /\ del.pc = "popped"
    /\ del' = [del EXCEPT !.pc = "dumped", !.snap = tokens]
    /\ ev' = Ev("DeleteDump", del.state, 0)
    /\ UNCHANGED <<now, up, crashes, env, tokens, pending, tokensFile,
                   pendingFile, saved, inflight, issued>>
    /\ UNCHANGED wvars

\* a slip: the file is written only when a record was removed
DeleteReplaceIfExisted ==
    /\ up
    /\ del.pc = "dumped"
    /\ IF del.existed THEN SaveTokens(del.snap) ELSE UNCHANGED <<tokensFile, saved>>
    /\ del' = DelIdle
    /\ ev' = [Ev("DeleteReplace", del.state, 200) EXCEPT !.deleted = del.existed]
    /\ UNCHANGED <<now, up, crashes, env, tokens, pending, pendingFile,
                   inflight, issued>>
    /\ UNCHANGED wvars

\* admin_delete_state: os.replace of the temporary file, and the answer
\* {"deleted": bool(existed)}
DeleteReplace ==
    /\ up
    /\ del.pc = "dumped"
    /\ SaveTokens(del.snap)
    /\ del' = DelIdle
    /\ ev' = [Ev("DeleteReplace", del.state, 200) EXCEPT !.deleted = del.existed]
    /\ UNCHANGED <<now, up, crashes, env, tokens, pending, pendingFile,
                   inflight, issued>>
    /\ UNCHANGED wvars

\* GET /admin/pending: JSONResponse(list(pending))
AdminPending(admin_token) ==
    /\ up
    /\ ev' = IF AdminOk(admin_token)
             THEN [Req(Ev("AdminPending", None, 200), admin_token) EXCEPT
                      !.body = pending]
             ELSE Req(Raised(Ev("AdminPending", None, 401)), admin_token)
    /\ UNCHANGED <<now, up, crashes, env, tokens, pending, tokensFile,
                   pendingFile, saved, inflight, del, issued>>
    /\ UNCHANGED wvars

\* the marker "***" admin_tokens puts in the place of a token: tokens being
\* numbered, a number that is no token and not NoToken
Redaction == -1

\* the keys of the dict `tokens`
Keys(m) == {s \in States : m[s] # NoRecord}

\* a slip: the refresh token is listed as stored
ListRedactedAccessOnly(m) ==
    [s \in Keys(m) |-> [k |-> "dict", access_token |-> Redaction,
                        refresh_token |-> m[s].refresh_token,
                        token_type |-> m[s].token_type,
                        expires_in |-> m[s].expires_in,
                        expires_at |-> m[s].expires_at]]

\* {k: {**v, "access_token": "***", "refresh_token": "***"} for k, v in tokens.items()}
ListRedacted(m) ==
    [s \in Keys(m) |-> [k |-> "dict", access_token |-> Redaction,
                        refresh_token |-> Redaction,
                        token_type |-> m[s].token_type,
                        expires_in |-> m[s].expires_in,
                        expires_at |-> m[s].expires_at]]

\* GET /admin/tokens
AdminTokens(admin_token) ==
    /\ up
    /\ ev' = IF AdminOk(admin_token)
             THEN [Req(Ev("AdminTokens", None, 200), admin_token) EXCEPT
                      !.body = ListRedacted(tokens)]
             ELSE Req(Raised(Ev("AdminTokens", None, 401)), admin_token)
    /\ UNCHANGED <<now, up, crashes, env, tokens, pending, tokensFile,
                   pendingFile, saved, inflight, del, issued>>
    /\ UNCHANGED wvars

\* ------------------------------------------------------------ initial disks
\* tokens.json / pending.json as the service may find them at its first start:
\* records of an earlier authorization (grant 0), some of them edited by hand
OldRecord == Rec(Tok(0, 8), Tok(0, 8), "Bearer", 61, ExpInt(61))
OldRecord2 == Rec(Tok(0, 9), NoToken, "Bearer", DEFAULT_EXPIRES_IN, ExpInt(DEFAULT_EXPIRES_IN))

InitTokenFiles ==
    { FileAbsent(NoMap),
      FileCorrupt(NoMap),
      FileJson("other", NoMap),
      FileJson("dict", [NoMap EXCEPT !["s1"] = OldRecord, !["s2"] = OldRecord2]),
      FileJson("dict", [NoMap EXCEPT !["s1"] = [OldRecord EXCEPT !.expires_at = ExpNumStr(61)]]),
      FileJson("dict", [NoMap EXCEPT !["s1"] = [OldRecord EXCEPT !.expires_at = ExpBad]]),
      FileJson("dict", [NoMap EXCEPT !["s1"] = [OldRecord EXCEPT !.expires_at = ExpMissing,
                                                               !.refresh_token = NoToken],
                                     !["s2"] = NotADict]) }

InitPendingFiles ==
    { FileAbsent(<<>>),
      FileCorrupt(<<>>),
      FileJson("other", <<>>),
      FileJson("list", <<AuditEntry("s1", "c7", 0), AuditEntry("s2", "c8", 0),
                         AuditEntry("s1", "c9", 0)>>) }

\* the disks taken as starting points: a fresh deployment, and each sample file
InitDisks ==
    { <<t, FileAbsent(<<>>)>> : t \in InitTokenFiles }
      \cup { <<FileAbsent(NoMap), q>> : q \in InitPendingFiles }

\* ------------------------------------------------- _atomic_write_json
\* File names in PERSIST_DIR: the target path, and the name mkstemp gives to
\* thread w (mkstemp never returns a name that exists).
TargetPath == 0
Writers == 1..MaxWriters
\* a slip: the document is written under the target path itself
MkstempInPlace(w) == TargetPath
\* a slip: every call uses the one name path.name + ".tmp"
MkstempFixedName(w) == 1
Mkstemp(w) == w

NoFile == [exists |-> FALSE, data |-> <<>>]
File(data) == [exists |-> TRUE, data |-> data]
\* the complete JSON text of snapshot v, as the chunks json.dump writes
Doc(v) == [i \in 1..DocLen |-> v]
WIdle == [pc |-> "idle", tmp_path |-> TargetPath, data |-> 0]

\* tempfile.mkstemp(...): the temporary file is created, empty
WMkstemp(w) ==
    /\ wr[w].pc = "idle"
    /\ versions < MaxVersions
    /\ versions' = versions + 1
    /\ wr' = [wr EXCEPT ![w] = [pc |-> "open", tmp_path |-> Mkstemp(w),
                                data |-> versions + 1]]
    /\ fs' = [fs EXCEPT ![Mkstemp(w)] = File(<<>>)]
    /\ UNCHANGED <<orphans, renamed, wcrashes>>
    /\ UNCHANGED svars

\* json.dump(serializable, f, ...): one more chunk reaches the file
WDump(w) ==
    /\ wr[w].pc = "open"
    /\ LET f == wr[w].tmp_path
       IN  /\ Len(fs[f].data) < DocLen
           /\ fs' = [fs EXCEPT ![f] = File(Append(fs[f].data, wr[w].data))]
    /\ UNCHANGED <<wr, orphans, versions, renamed, wcrashes>>
    /\ UNCHANGED svars

\* f.flush(); os.fsync(f.fileno()); the with block closes f
WSync(w) ==
    /\ wr[w].pc = "open"
    /\ Len(fs[wr[w].tmp_path].data) = DocLen
    /\ wr' = [wr EXCEPT ![w].pc = "synced"]
    /\ UNCHANGED <<fs, orphans, versions, renamed, wcrashes>>
    /\ UNCHANGED svars

\* os.replace(tmp_path, path): the name `path` now is the temporary file
WReplace(w) ==
    /\ wr[w].pc = "synced"
    /\ LET f == wr[w].tmp_path
       IN  fs' = IF f = TargetPath THEN fs
                 ELSE [fs EXCEPT ![TargetPath] = fs[f], ![f] = NoFile]
    /\ renamed' = wr[w].data
    /\ wr' = [wr EXCEPT ![w].pc = "replaced"]
    /\ UNCHANGED <<orphans, versions, wcrashes>>
    /\ UNCHANGED svars

\* an exception (OSError: disk full, permission denied, ...) in json.dump,
\* flush, fsync or os.replace: control goes to the finally clause
WRaise(w) ==
    /\ wr[w].pc \in {"open", "synced"}
    /\ wr' = [wr EXCEPT ![w].pc = "raised"]
    /\ UNCHANGED <<fs, orphans, versions, renamed, wcrashes>>
    /\ UNCHANGED svars

\* a slip: the finally clause returns without removing the temporary file
WFinallyNoUnlink(w) ==
    /\ wr[w].pc \in {"replaced", "raised"}
    /\ wr' = [wr EXCEPT ![w] = WIdle]
    /\ UNCHANGED <<fs, orphans, versions, renamed, wcrashes>>
    /\ UNCHANGED svars

\* finally: if os.path.exists(tmp_path): os.unlink(tmp_path); then return or re-raise
WFinally(w) ==
    /\ wr[w].pc \in {"replaced", "raised"}
    /\ LET f == wr[w].tmp_path
       IN  fs' = IF fs[f].exists THEN [fs EXCEPT ![f] = NoFile] ELSE fs
    /\ wr' = [wr EXCEPT ![w] = WIdle]
    /\ UNCHANGED <<orphans, versions, renamed, wcrashes>>
    /\ UNCHANGED svars

\* the process dies at any point: its threads are gone, the temporary files
\* they had created stay in PERSIST_DIR
WCrash ==
    /\ wcrashes < MaxWriteCrashes
    /\ \E w \in Writers : wr[w].pc # "idle"
    /\ wcrashes' = wcrashes + 1
    /\ orphans' = orphans \cup {fs[w].data : w \in {x \in Writers : fs[x].exists}}
    /\ fs' = [n \in DOMAIN fs |-> IF n = TargetPath THEN fs[n] ELSE NoFile]
    /\ wr' = [w \in Writers |-> WIdle]
    /\ UNCHANGED <<versions, renamed>>
    /\ UNCHANGED svars

EnvConfigured == [ADMIN_TOKEN |-> "adm", BOT_SHARED_SECRET |-> "bot"]

\* no _atomic_write_json is looked at step by step
WInit ==
    /\ fs = [n \in {TargetPath} \cup Writers |-> NoFile]
    /\ wr = [w \in Writers |-> WIdle]
    /\ orphans = {}
    /\ versions = 0
    /\ renamed = 0
    /\ wcrashes = 0

SInit ==
    /\ now = 0
    /\ up = FALSE
    /\ crashes = 0
    /\ env = EnvConfigured
    /\ tokens = NoMap
    /\ pending = <<>>
    /\ \E d \in InitDisks : tokensFile = d[1] /\ pendingFile = d[2]
    /\ saved = [tokens |-> FALSE, pending |-> FALSE]
    /\ inflight = <<>>
    /\ del = DelIdle
    /\ issued = 0
    /\ ev = Ev("Init", None, 0)

Init == SInit /\ WInit

\* the credentials of the bot and of the administrator
BotHeader == [scheme |-> "Bearer", secret |-> "bot"]
AdminHeader == "adm"

\* Authorised traffic: every request carries the configured credentials.
Next ==
    \/ Startup
    \/ Crash
    \/ Tick
    \/ \E code \in Codes, state \in CallbackStates : HhCallback(code, state)
    \/ \E i \in Slots, shape \in ProviderResponses : ExchangeOk(i, shape)
    \/ \E i \in Slots, failure \in ProviderFailures : ExchangeFail(i, failure)
    \/ \E state \in States : TokenByState(BotHeader, state)
    \/ \E i \in Slots, shape \in ProviderResponses : RefreshOk(i, shape)
    \/ \E i \in Slots, failure \in ProviderFailures : RefreshFail(i, failure)
    \/ \E state \in States : DeletePop(AdminHeader, state)
    \/ DeleteDump
    \/ DeleteReplace

Spec == Init /\ [][Next]_vars

\* One target file under concurrent _atomic_write_json calls: the file is
\* missing or holds snapshot 0 when the first call starts.
InitWrite ==
    /\ SInit
    /\ tokensFile = FileAbsent(NoMap)
    /\ pendingFile = FileAbsent(<<>>)
    /\ fs \in { [n \in {TargetPath} \cup Writers |-> IF n = TargetPath THEN t ELSE NoFile] :
                   t \in {NoFile, File(Doc(0))} }
    /\ wr = [w \in Writers |-> WIdle]
    /\ orphans = {}
    /\ versions = 0
    /\ renamed = 0
    /\ wcrashes = 0

NextWrite ==
    \/ \E w \in Writers : WMkstemp(w)
    \/ \E w \in Writers : WDump(w)
    \/ \E w \in Writers : WSync(w)
    \/ \E w \in Writers : WReplace(w)
    \/ \E w \in Writers : WRaise(w)
    \/ \E w \in Writers : WFinally(w)
    \/ WCrash

SpecWrite == InitWrite /\ [][NextWrite]_vars

\* ------------------------------------------------------------ any request
\* os.getenv("ADMIN_TOKEN") / os.getenv("BOT_SHARED_SECRET") when the
\* variables are not set
EnvUnset == [ADMIN_TOKEN |-> None, BOT_SHARED_SECRET |-> None]
Envs == {EnvConfigured, EnvUnset}

\* Requests with any credentials and parameters, under either configuration,
\* within one second (the last the clock reaches); the service starts from
\* a disk that has token records, one of them stale, and an audit entry.
InitRequests ==
    /\ now = MaxTime
    /\ up = FALSE
    /\ crashes = 0
    /\ env \in Envs
    /\ tokens = NoMap
    /\ pending = <<>>
    /\ tokensFile = FileJson("dict", [NoMap EXCEPT !["s1"] = OldRecord, !["s2"] = OldRecord2])
    /\ pendingFile = FileJson("list", <<AuditEntry("s2", "c8", 0)>>)
    /\ saved = [tokens |-> FALSE, pending |-> FALSE]
    /\ inflight = <<>>
    /\ del = DelIdle
    /\ issued = 0
    /\ ev = Ev("Init", None, 0)
    /\ WInit

NextRequests ==
    \/ Startup
    \/ Health
    \/ \E code \in QueryValues(Codes), state \in QueryValues(CallbackStates) :
          HhCallback(code, state)
    \/ \E i \in Slots, shape \in ProviderResponses : ExchangeOk(i, shape)
    \/ \E i \in Slots, failure \in ProviderFailures : ExchangeFail(i, failure)
    \/ \E auth \in AuthHeaders, state \in States : TokenByState(auth, state)
    \/ \E i \in Slots, shape \in ProviderResponses : RefreshOk(i, shape)
    \/ \E i \in Slots, failure \in ProviderFailures : RefreshFail(i, failure)
    \/ \E admin_token \in AdminHeaders, state \in States : DeletePop(admin_token, state)
    \/ DeleteDump
    \/ DeleteReplace
    \/ \E admin_token \in AdminHeaders : AdminPending(admin_token)
    \/ \E admin_token \in AdminHeaders : AdminTokens(admin_token)

SpecRequests == InitRequests /\ [][NextRequests]_vars

\* ---------------------------------------------------------------- claims
\* the handler suspended at position i is taken off the list
Resumed(i) ==
    /\ i \in 1..Len(inflight)
    /\ inflight' = SubSeq(inflight, 1, i - 1) \o SubSeq(inflight, i + 1, Len(inflight))

\* C1: one call of get_valid (the step TokenByState with the bot's credentials)
\* puts exactly one refresh call in flight when now >= expires_at - 60 and the
\* record has a refresh token, and none otherwise; when none is put in flight
\* it returns the stored record as it is; in both cases the step leaves the
\* token map and tokens.json alone, and the continuation of a refresh (answer
\* or failure) takes that one call off the list and issues no other.
C1_RefreshIffStale ==
    [][ /\ (ev'.op = "TokenByState" /\ ev'.status # 401) =>
            LET item == tokens[ev'.state]
                expires_at == IF item.expires_at.k = "missing" THEN 0
                              ELSE item.expires_at.v
            IN  /\ IF /\ item # NoRecord
                      /\ now >= expires_at - 60
                      /\ item.refresh_token # NoToken
                   THEN /\ inflight' = Append(inflight,
                                [op |-> "get_valid", state |-> ev'.state,
                                 code |-> None,
                                 refresh_token |-> item.refresh_token])
                        /\ ev'.status = 0
                   ELSE /\ inflight' = inflight
                        /\ ev'.ret = item
                        /\ ev'.status # 0
                /\ tokens' = tokens
                /\ tokensFile' = tokensFile
        /\ (ev'.op \in {"RefreshOk", "RefreshFail"}) =>
            \E i \in 1..Len(inflight) : inflight[i].op = "get_valid" /\ Resumed(i)
      ]_vars

\* C1 witness: a refresh call was issued exactly at the boundary now = expires_at - 60
C1_Witness ==
    /\ ev.op = "TokenByState"
    /\ ev.status = 0
    /\ tokens[ev.state].expires_at = ExpInt(now + 60)
    /\ inflight # <<>>
    /\ inflight[Len(inflight)].refresh_token = tokens[ev.state].refresh_token

\* C2: after a successful refresh the stored record has the access token and
\* expires_at of the refresh answer; its refresh token is the answer's if the
\* answer has one, otherwise the one the call had read from the record and
\* submitted; no other record changes; that record is in tokens.json and is
\* what the call returns.
C2_RefreshedRecord ==
    [][ (ev'.op = "RefreshOk") =>
            LET state == ev'.state
                r == tokens'[state]
            IN  /\ \E i \in 1..Len(inflight) :
                      /\ inflight[i] = [op |-> "get_valid", state |-> state,
                                        code |-> None, refresh_token |-> ev'.sent]
                      /\ Resumed(i)
                /\ r.k = "dict"
                /\ r.access_token = ev'.resp.access_token
                /\ r.expires_at = ExpInt(ev'.resp.expires_at)
                /\ r.refresh_token = IF ev'.resp.refresh_token # NoToken
                                     THEN ev'.resp.refresh_token ELSE ev'.sent
                /\ \A other \in States \ {state} : tokens'[other] = tokens[other]
                /\ tokensFile' = FileJson("dict", tokens')
                /\ ev'.ret = r
                /\ ev'.status = 200
      ]_vars

\* C2 witness: an answer without refresh_token was stored, the old one kept
C2_Witness ==
    /\ ev.op = "RefreshOk"
    /\ ev.resp.refresh_token = NoToken
    /\ ev.sent # NoToken
    /\ tokens[ev.state].refresh_token = ev.sent
    /\ tokens[ev.state].access_token = ev.resp.access_token

\* C3: whatever the threads in _atomic_write_json have done and wherever the
\* process died, the target path holds a complete document: the snapshot of
\* the last os.replace, or the document (or no file) that was there before
\* the first one.
C3_TargetComplete ==
    LET target == fs[TargetPath]
    IN  /\ target.exists => target.data = Doc(renamed)
        /\ renamed > 0 => target.exists

\* C3 witness: the process died while a temporary file was half written, after
\* an earlier write had been renamed into place
C3_Witness ==
    /\ wcrashes > 0
    /\ \E o \in orphans : Len(o) > 0 /\ Len(o) < DocLen
    /\ renamed > 0
    /\ fs[TargetPath] = File(Doc(renamed))

\* C4: whenever no handler is in progress, each file this service has written
\* holds exactly the in-memory collection it persists.
C4_WriteThrough ==
    (up /\ inflight = <<>> /\ del.pc = "idle") =>
        /\ saved.tokens => tokensFile = FileJson("dict", tokens)
        /\ saved.pending => pendingFile = FileJson("list", pending)

\* C5: when the refresh fails, the failure reaches the caller (the handler
\* raises, status 500, no record returned), the call is taken off the list
\* and no other is issued, and neither step of the call (the one that issued
\* the refresh, the one that saw it fail) changes the token map or tokens.json.
C5_RefreshFailurePropagates ==
    [][ /\ (ev'.op = "RefreshFail") =>
            /\ ev'.raised
            /\ ev'.status = 500
            /\ ev'.ret = NoRecord
            /\ \E i \in 1..Len(inflight) :
                  /\ inflight[i].op = "get_valid"
                  /\ inflight[i].state = ev'.state
                  /\ Resumed(i)
            /\ UNCHANGED <<tokens, tokensFile, issued>>
        /\ (ev'.op = "TokenByState" /\ ev'.status = 0) =>
            /\ Len(inflight') = Len(inflight) + 1
            /\ UNCHANGED <<tokens, tokensFile, issued>>
      ]_vars

\* C5 witness: a refresh has failed and the record it was for is still stored
C5_Witness ==
    /\ ev.op = "RefreshFail"
    /\ tokens[ev.state] # NoRecord
    /\ tokens[ev.state].refresh_token = ev.sent
    /\ tokensFile = FileJson("dict", tokens)

\* C6: a callback with code and state appends its audit entry and writes
\* pending.json in the step that issues the exchange; when the exchange then
\* fails, the handler answers 500 without raising and changes neither the
\* token map, tokens.json, the audit buffer nor pending.json.
C6_ExchangeFailureDegrades ==
    [][ /\ (ev'.op = "HhCallback" /\ ev'.status = 0) =>
            /\ Len(inflight') = Len(inflight) + 1
            /\ LET h == inflight'[Len(inflight')]
               IN  /\ h.op = "hh_callback"
                   /\ h.state = ev'.state
                   /\ pending' # <<>>
                   /\ pending'[Len(pending')] =
                         [state |-> h.state, code |-> h.code, ts |-> now, ip |-> "ip"]
            /\ pendingFile' = FileJson("list", pending')
            /\ UNCHANGED <<tokens, tokensFile>>
        /\ (ev'.op = "ExchangeFail") =>
            /\ ev'.status = 500
            /\ ~ev'.raised
            /\ \E i \in 1..Len(inflight) :
                  /\ inflight[i].op = "hh_callback"
                  /\ inflight[i].state = ev'.state
                  /\ Resumed(i)
            /\ UNCHANGED <<tokens, tokensFile, pending, pendingFile>>
      ]_vars

\* C6 witness: an exchange has failed; the audit entry of the callback is in
\* the buffer and in pending.json, and the state has no token record
C6_Witness ==
    /\ ev.op = "ExchangeFail"
    /\ \E k \in 1..Len(pending) : pending[k].state = ev.state /\ pending[k].code \in Codes
    /\ pendingFile = FileJson("list", pending)
    /\ tokens[ev.state] = NoRecord

\* C7: delete(state) removes the record of state and no other, notes whether
\* there was one, dumps the whole map as it then is, replaces tokens.json
\* with that dump whether or not a record was removed, and answers
\* deleted = whether there was one.
C7_Delete ==
    [][ /\ (ev'.op = "DeletePop" /\ ev'.status = 0) =>
            /\ tokens' = [s \in States |-> IF s = ev'.state THEN NoRecord ELSE tokens[s]]
            /\ del'.pc = "popped"
            /\ del'.state = ev'.state
            /\ del'.existed = (tokens[ev'.state] # NoRecord)
            /\ (~del'.existed => tokens' = tokens)
        /\ (ev'.op = "DeleteDump") =>
            /\ del'.snap = tokens
            /\ del'.existed = del.existed
            /\ UNCHANGED <<tokens, tokensFile>>
        /\ (ev'.op = "DeleteReplace") =>
            /\ tokensFile' = FileJson("dict", del.snap)
            /\ saved'.tokens
            /\ ev'.status = 200
            /\ ev'.deleted = del.existed
            /\ tokens' = tokens
      ]_vars

\* C7 witness: a delete of a state without record has answered deleted = false
\* and tokens.json holds the unchanged map, before the provider issued any token
C7_Witness ==
    /\ ev.op = "DeleteReplace"
    /\ ~ev.deleted
    /\ tokens[ev.state] = NoRecord
    /\ tokensFile = FileJson("dict", tokens)
    /\ issued = 0

\* C8: while a state has a record, the record is never replaced by one of an
\* older authorization: neither the access token nor the refresh token of
\* the new record descends from a grant older than the record it replaces.
C8_CallbackSupersedes ==
    [][ \A s \in States :
            (tokens[s] # NoRecord /\ tokens'[s] # NoRecord) =>
                /\ GrantOf(tokens'[s].access_token) >= GrantOf(tokens[s].access_token)
                /\ tokens'[s].refresh_token # NoToken =>
                      GrantOf(tokens'[s].refresh_token) >= GrantOf(tokens[s].access_token)
      ]_vars

\* C9: while the service is up, every record of the token map has an integer expires_at.
C9_IntegerExpiresAt ==
    up => \A s \in States : tokens[s] # NoRecord => tokens[s].expires_at.k = "int"

\* C10: when the service starts from a tokens.json that save_tokens wrote, the
\* map it loads is the map in the file, except that an entry whose expires_at
\* is not an integer is loaded with expires_at = load time + 300.
C10_RoundTrip ==
    (ev.op = "Startup" /\ saved.tokens) =>
        /\ tokensFile.k = "json"
        /\ tokensFile.top = "dict"
        /\ \A s \in States :
              LET written == tokensFile.val[s]
              IN  tokens[s] = IF written.k # "dict" THEN NoRecord
                              ELSE IF written.expires_at.k = "int" THEN written
                              ELSE [written EXCEPT !.expires_at = ExpInt(now + 300)]

\* C11: a start from an absent or unparseable tokens.json (pending.json) leaves
\* the token map (the audit buffer) empty, and no step of the service, the
\* load or a later write-through, changes a file that does not parse.
C11_CorruptFileKept ==
    [][ /\ (ev'.op = "Startup" /\ tokensFile.k \in {"absent", "corrupt"}) =>
            tokens' = NoMap
        /\ (ev'.op = "Startup" /\ pendingFile.k \in {"absent", "corrupt"}) =>
            pending' = <<>>
        /\ tokensFile.k = "corrupt" => tokensFile' = tokensFile
        /\ pendingFile.k = "corrupt" => pendingFile' = pendingFile
      ]_vars

\* C12: when a step of an atomic write raises (json.dump, flush, fsync or
\* os.replace), the write does not change the target file: the only step that
\* changes the target is an os.replace that succeeded; and when the call then
\* returns control, through its finally clause, its temporary file is gone
\* and the target is as it was.
C12_FailedWriteCleansUp ==
    [][ /\ fs'[TargetPath] # fs[TargetPath] =>
            \E w \in Writers : /\ wr[w].pc = "synced"
                               /\ wr'[w].pc = "replaced"
                               /\ fs'[TargetPath] = File(Doc(wr[w].data))
        /\ \A w \in Writers :
            /\ (wr[w].pc # "raised" /\ wr'[w].pc = "raised") =>
                  /\ wr[w].pc \in {"open", "synced"}
                  /\ fs' = fs
            /\ (wr[w].pc = "raised" /\ wr'[w].pc = "idle" /\ wcrashes' = wcrashes) =>
                  /\ ~fs'[wr[w].tmp_path].exists
                  /\ wr[w].tmp_path # TargetPath
                  /\ fs'[TargetPath] = fs[TargetPath]
      ]_vars

\* C12 witness: the one write that was started found snapshot 0 in the target,
\* raised and has returned: nothing was renamed, the target still is snapshot
\* 0 and no temporary file is left
C12_Witness ==
    /\ versions = 1
    /\ wcrashes = 0
    /\ renamed = 0
    /\ \A w \in Writers : wr[w].pc = "idle" /\ ~fs[w].exists
    /\ fs[TargetPath] = File(Doc(0))

\* C18: with several threads inside _atomic_write_json for the same target,
\* the threads that hold a temporary file hold different ones, none of them
\* the target; the target, when it exists, is at every moment the complete
\* document of one of the snapshots handed in so far (or the document found
\* at the start); each os.replace puts exactly its caller's snapshot in
\* place; and once all calls have finished after at least one rename, the
\* target is the snapshot of the rename that happened last.
C18_LastRenameWins ==
    [][ /\ \A w1, w2 \in Writers :
            (w1 # w2 /\ wr'[w1].pc # "idle" /\ wr'[w2].pc # "idle") =>
                /\ wr'[w1].tmp_path # wr'[w2].tmp_path
                /\ wr'[w1].tmp_path # TargetPath
        /\ fs'[TargetPath].exists =>
            \E v \in 0..versions' : fs'[TargetPath].data = Doc(v)
        /\ \A w \in Writers :
            (wr[w].pc = "synced" /\ wr'[w].pc = "replaced") =>
                /\ fs'[TargetPath] = File(Doc(wr[w].data))
                /\ renamed' = wr[w].data
        /\ renamed' # renamed =>
            \E w \in Writers : wr[w].pc = "synced" /\ wr'[w].pc = "replaced"
        /\ ((\A w \in Writers : wr'[w].pc = "idle") /\ renamed' > 0) =>
            fs'[TargetPath] = File(Doc(renamed'))
      ]_vars

\* C18 witness: two writes overlapped and both have renamed, the one with the
\* later snapshot first: the target is the snapshot of the rename that came last
C18_Witness ==
    /\ wcrashes = 0
    /\ \E w1, w2 \in Writers :
          /\ wr[w1].pc = "replaced" /\ wr[w1].data = 2
          /\ wr[w2].pc = "replaced" /\ wr[w2].data = 1
    /\ renamed = 1
    /\ fs[TargetPath] = File(Doc(1))

\* C13: the audit buffer never holds more than BUFFER_MAX entries; a callback
\* with code and state leaves in it the last BUFFER_MAX entries of the old
\* buffer followed by the new entry, in that order, so a push into a full
\* buffer drops exactly the oldest entry, and the push is not answered as an
\* error; a start from a pending.json that save_pending wrote brings the
\* persisted entries back, all of them and in order.
C13_BoundedAuditBuffer ==
    [][ /\ Len(pending') <= BUFFER_MAX
        /\ (ev'.op = "HhCallback" /\ ev'.status # 400) =>
            LET pushed == Append(pending, [state |-> ev'.req.state,
                                           code |-> ev'.req.code,
                                           ts |-> now, ip |-> "ip"])
                from == IF Len(pushed) > BUFFER_MAX
                        THEN Len(pushed) - BUFFER_MAX + 1 ELSE 1
            IN  /\ pending' = SubSeq(pushed, from, Len(pushed))
                /\ (Len(pending) = BUFFER_MAX =>
                        \A k \in 1..(BUFFER_MAX - 1) : pending'[k] = pending[k + 1])
                /\ ~ev'.raised
                /\ ev'.status = 0
        /\ (ev'.op = "Startup" /\ saved.pending) =>
            /\ pendingFile.k = "json"
            /\ pending' = pendingFile.val
      ]_vars

\* C13 witness: a callback was pushed into a full buffer (the two oldest
\* entries of a pending.json of three, codes c7 and c8): c7 is gone, c8 moved
\* to the front and the callback's entry is last
C13_Witness ==
    /\ ev.op = "HhCallback"
    /\ ev.status = 0
    /\ Len(pending) = BUFFER_MAX
    /\ pending[1].code = "c8"
    /\ pending[BUFFER_MAX].code = "c1"
    /\ pendingFile = FileJson("list", pending)

\* C14: a callback without code or without state is answered 400; an admin
\* request (delete, list pending, list tokens) whose token header differs
\* from ADMIN_TOKEN is answered 401; a token lookup whose Authorization
\* header is not "Bearer " followed by BOT_SHARED_SECRET is answered 401; and
\* a step that answers 400 or 401 changes neither the token map, the audit
\* buffer, tokens.json nor pending.json, starts no handler work (no provider
\* call, no delete in progress) and answers no data.
C14_RejectedRequestsChangeNothing ==
    [][ LET e == ev'
            badCallback == /\ e.op = "HhCallback"
                           /\ (e.req.code = None \/ e.req.state = None)
            badAdmin == /\ e.op \in {"DeletePop", "AdminPending", "AdminTokens"}
                        /\ e.req # env.ADMIN_TOKEN
            badBot == /\ e.op = "TokenByState"
                      /\ ~(e.req.scheme = "Bearer" /\ e.req.secret = env.BOT_SHARED_SECRET)
        IN  /\ badCallback => e.status = 400
            /\ badAdmin => e.status = 401
            /\ badBot => e.status = 401
            /\ e.status \in {400, 401} =>
                /\ badCallback \/ badAdmin \/ badBot
                /\ e.raised
                /\ UNCHANGED <<tokens, pending, tokensFile, pendingFile, saved,
                               inflight, del, issued>>
                /\ e.ret = NoRecord
                /\ e.body = <<>>
      ]_vars

\* C14 witness: a delete carrying a wrong admin token was answered 401 while
\* the record it named is stored, and the record is still there
C14_Witness ==
    /\ ev.op = "DeletePop"
    /\ ev.status = 401
    /\ ev.req = "wrong"
    /\ env = EnvConfigured
    /\ tokens[ev.state] # NoRecord
    /\ tokensFile = FileJson("dict", tokens)
    /\ del = DelIdle

\* the map m with every stored access token replaced by a and every stored
\* refresh token by r
Retokened(m, a, r) ==
    [s \in States |-> IF m[s] = NoRecord THEN NoRecord
                      ELSE [m[s] EXCEPT !.access_token = a, !.refresh_token = r]]

\* C15: an authorised GET /admin/tokens answers one entry per key of the
\* token map, each with access_token and refresh_token equal to the marker
\* and token_type, expires_in, expires_at as stored; the same answer comes
\* out of every map that differs from the stored one only in its access and
\* refresh token values; and the token map is left as it was.
C15_RedactedListing ==
    [][ (ev'.op = "AdminTokens" /\ ev'.status = 200) =>
            LET body == ev'.body
            IN  /\ DOMAIN body = {s \in States : tokens[s] # NoRecord}
                /\ \A s \in DOMAIN body :
                      /\ body[s].access_token = Redaction
                      /\ body[s].refresh_token = Redaction
                      /\ body[s].token_type = tokens[s].token_type
                      /\ body[s].expires_in = tokens[s].expires_in
                      /\ body[s].expires_at = tokens[s].expires_at
                /\ \A a, r \in {NoToken, Tok(0, 8), Tok(1, 1), Tok(1, 2)} :
                      ListRedacted(Retokened(tokens, a, r)) = body
                /\ tokens' = tokens
                /\ tokensFile' = tokensFile
      ]_vars

\* C15 witness: the listing of a map of two records, one with a refresh
\* token and one without, shows the marker in both
C15_Witness ==
    /\ ev.op = "AdminTokens"
    /\ ev.status = 200
    /\ DOMAIN ev.body = {"s1", "s2"}
    /\ tokens["s1"].refresh_token # NoToken
    /\ tokens["s2"].refresh_token = NoToken
    /\ ev.body["s1"].refresh_token = Redaction
    /\ ev.body["s2"].refresh_token = Redaction

\* C16: a state that has no record gets one only by the startup load or by a
\* callback for that state whose code exchange succeeded; in particular not
\* by a refresh, which only replaces a record that is there.
C16_RecordsOnlyFromCallbacks ==
    [][ \A s \in States :
            (tokens[s] = NoRecord /\ tokens'[s] # NoRecord) =>
                \/ ev'.op = "Startup"
                \/ ev'.op = "ExchangeOk" /\ ev'.state = s
      ]_vars

\* C17: no refresh token is in the hands of the provider twice at a time: two
\* get_valid calls suspended in their refresh exchange have submitted
\* different refresh tokens.
C17_OneRefreshPerToken ==
    \A i, j \in 1..Len(inflight) :
        (i # j /\ inflight[i].op = "get_valid" /\ inflight[j].op = "get_valid") =>
            inflight[i].refresh_token # inflight[j].refresh_token

\* C19: whatever the configuration, an admin request (delete, list pending,
\* list tokens) that carries no admin token header is answered 401, answers
\* no data and leaves the token map and the audit buffer as they were.
C19_AdminNeedsToken ==
    [][ (ev'.op \in {"DeletePop", "AdminPending", "AdminTokens"} /\ ev'.req = None) =>
            /\ ev'.status = 401
            /\ ev'.body = <<>>
            /\ UNCHANGED <<tokens, pending>>
      ]_vars

\* C20: no step of a delete and no step of a token lookup (with or without
\* refresh) changes the audit buffer or pending.json; among the requests,
\* only a callback with code and state changes the audit buffer (besides it,
\* only the process start, which loads it, and the process death, which loses
\* it) and only it writes pending.json; and the step of a callback that
\* appends the audit entry changes neither the token map nor tokens.json.
C20_IndependentStores ==
    [][ /\ ev'.op \in {"DeletePop", "DeleteDump", "DeleteReplace",
                       "TokenByState", "RefreshOk", "RefreshFail"} =>
            UNCHANGED <<pending, pendingFile>>
        /\ pending' # pending =>
            \/ ev'.op = "HhCallback" /\ ev'.req.code # None /\ ev'.req.state # None
            \/ ev'.op \in {"Startup", "Crash"}
        /\ pendingFile' # pendingFile =>
            ev'.op = "HhCallback" /\ ev'.req.code # None /\ ev'.req.state # None
        /\ ev'.op = "HhCallback" => UNCHANGED <<tokens, tokensFile>>
      ]_vars

\* C20 witness: the record of a state was deleted and the audit entry of a
\* callback for that state is still in the buffer and in pending.json
C20_Witness ==
    /\ ev.op = "DeleteReplace"
    /\ ev.deleted
    /\ tokens[ev.state] = NoRecord
    /\ \E k \in 1..Len(pending) : pending[k].state = ev.state /\ pending[k].code \in Codes
    /\ pendingFile = FileJson("list", pending)

====
